---- MODULE Spec2Model ----
(***************************************************************************)
(* Model of the resilient fetch subsystem of rmmp: the GitHub proxy        *)
(* catalogue with its 10-hour cache file (GitHubProxyManager), the         *)
(* selection of a best proxy, and the module downloader's direct-then-     *)
(* mirrors fallback chains (ModuleDownloader).                             *)
(*                                                                         *)
(* Time is counted in hours.  Speeds are counted in 1/100 MB/s and scores  *)
(* in 1/10000, so that speed*0.6 + (1000-latency)/1000*0.4 is the integer  *)
(* 60*speed + 4*(1000-latency).  Display-only fields (server, ip,          *)
(* location, update_time, msg, version, changelog) are left out.           *)
(***************************************************************************)
EXTENDS Integers, Sequences, FiniteSets, TLC

VARIABLES
    now,        \* wall clock, hours
    cacheFile,  \* the cache file github_proxy.json on disk
    destFile,   \* the module zip at localPath on disk
    cleared,    \* ClearCache removed the file and GetProxies has not run since
    cmd,        \* the CLI command the process runs
    pc,         \* position of the process in its code
    ret,        \* where GetProxies returns to
    gp,         \* the GetProxies call in progress or just returned
    proxies,    \* the caller's proxies slice
    chain,      \* "manifest" (downloadUpdateJSON) or "payload" (downloadModule)
    attempts,   \* the network fetch attempts of the current chain, in order
    tried,      \* loop counter tried
    idx,        \* position of the range loop in proxies
    zipUrl,     \* updateInfo.ZipURL
    result,     \* what the command's last call returned
    bProxies, bI, bSt, bPc,   \* GetBestProxy's loop run on its own
    uIn, uOut, uPc,           \* extractGitHubURL run on its own
    inflight,   \* the HTTP requests sent and not yet ended, when a chain is
                \* run request by request
    silent,     \* no remote endpoint answers during that run
    fIn,        \* one call of downloadWithTimeout or downloadFile run step by
                \* step: what the network and the file system will do
    fPc,        \* its position
    fSt,        \* its locals: requests sent, err, data, what is open, defers
    fFile,      \* the file at localPath, as a sequence of chunks
    fN,         \* how many calls the caller has made so far
    other       \* what another process did to the cache file between
                \* isCacheValid and loadFromCache

mainVars == <<now, cacheFile, destFile, cleared, cmd, pc, ret, gp, proxies,
              chain, attempts, tried, idx, zipUrl, result>>
bestVars == <<bProxies, bI, bSt, bPc>>
urlVars == <<uIn, uOut, uPc>>
netVars == <<inflight, silent>>
fetchVars == <<fIn, fPc, fSt, fFile, fN>>
vars == <<now, cacheFile, destFile, cleared, cmd, pc, ret, gp, proxies,
          chain, attempts, tried, idx, zipUrl, result,
          bProxies, bI, bSt, bPc, uIn, uOut, uPc, inflight, silent,
          fIn, fPc, fSt, fFile, fN, other>>

----------------------------------------------------------------------------
(* Bounds of the model *)

MaxTime == 15       \* the clock stops after this many hours
TickHours == 5      \* hours between two moments at which the clock is looked at
MaxMirrors == 11    \* length of the longest list the directory service sends
MaxBestLen == 3     \* longest list GetBestProxy's loop is run on by itself
MaxStack == 1       \* known prefixes stacked behind the head of a test URL

(* Program constants *)

cacheValidDuration == 10    \* hours
maxRetry == 10
manifestTimeout == 3        \* seconds
payloadTimeout == 30        \* seconds

----------------------------------------------------------------------------
(* strings.HasPrefix, strings.TrimPrefix, strings.TrimSuffix *)

HasPrefix(s, p) == Len(s) >= Len(p) /\ SubSeq(s, 1, Len(p)) = p

HasSuffix(s, p) == Len(s) >= Len(p) /\ SubSeq(s, Len(s) - Len(p) + 1, Len(s)) = p

TrimPrefix(s, p) ==
    IF HasPrefix(s, p) THEN SubSeq(s, Len(p) + 1, Len(s)) ELSE s

TrimSuffix(s, p) ==
    IF HasSuffix(s, p) THEN SubSeq(s, 1, Len(s) - Len(p)) ELSE s

(* extractGitHubURL *)

prefixes == << "https://ghproxy.cc/",
               "https://ghproxy.cn/",
               "https://gh.b52m.cn/",
               "https://github.moeyy.xyz/",
               "https://mirror.ghproxy.com/" >>

RECURSIVE extractFrom(_, _)
extractFrom(proxyURL, k) ==
    IF k > Len(prefixes) THEN proxyURL
    ELSE IF HasPrefix(proxyURL, prefixes[k]) THEN TrimPrefix(proxyURL, prefixes[k])
    ELSE extractFrom(proxyURL, k + 1)

RECURSIVE extractEvery(_)
extractEvery(proxyURL) ==
    IF extractFrom(proxyURL, 1) = proxyURL THEN proxyURL
    ELSE extractEvery(extractFrom(proxyURL, 1))

extractGitHubURL(proxyURL) == extractFrom(proxyURL, 1)

(* buildUpdateURL *)
buildUpdateURL(repo) ==
    "https://github.com/" \o repo \o "/releases/latest/download/update.json"

(* fmt.Sprintf("%s/%s", strings.TrimSuffix(proxy.URL, "/"), originalURL) *)
proxyURLFor(proxy, originalURL) == TrimSuffix(proxy.url, "/") \o "/" \o originalURL

----------------------------------------------------------------------------
(* GitHubProxyData records and the lists the directory service can send *)

MirrorAt(i) ==
    [url |-> "https://m" \o ToString(i) \o ".example" \o (IF i % 2 = 0 THEN "/" ELSE ""),
     latency |-> 100 * i,
     speed |-> ((i * 7) % 13) * 10]

LongList(n) == [i \in 1..n |-> MirrorAt(i)]

TieList ==
    << [url |-> "https://t1.example/", latency |-> 1500, speed |-> 50],
       [url |-> "https://t2.example", latency |-> 200, speed |-> 120],
       [url |-> "https://t3.example/", latency |-> 3000, speed |-> 50] >>

ApiLists == {LongList(0), LongList(1), LongList(MaxMirrors), TieList}

(* GitHubProxyResponse as it arrives: a transport error, an HTTP status, a *)
(* body that may not be readable or not be JSON, and the decoded fields.   *)
ApiResponse(err, status, readOk, json, code, data, total) ==
    [err |-> err, status |-> status, readOk |-> readOk, json |-> json,
     code |-> code, data |-> data, total |-> total]

ApiResponses ==
    { ApiResponse(TRUE, 0, FALSE, FALSE, 0, <<>>, 0),
      ApiResponse(FALSE, 500, TRUE, TRUE, 200, <<>>, 0),
      ApiResponse(FALSE, 200, FALSE, FALSE, 0, <<>>, 0),
      ApiResponse(FALSE, 200, TRUE, FALSE, 0, <<>>, 0),
      ApiResponse(FALSE, 200, TRUE, TRUE, 500, LongList(1), 1) }
    \cup { ApiResponse(FALSE, 200, TRUE, TRUE, 200, l, Len(l)) : l \in ApiLists }
    \cup { ApiResponse(FALSE, 200, TRUE, TRUE, 200, TieList, Len(TieList) + 1) }

(* The cache file: absent, present but unreadable or not JSON, or a ProxyCache *)
AbsentFile == [kind |-> "absent", data |-> <<>>, cache_time |-> 0, total |-> 0]
CorruptFile == [kind |-> "corrupt", data |-> <<>>, cache_time |-> 0, total |-> 0]
ProxyCache(data, cacheTime, total) ==
    [kind |-> "snapshot", data |-> data, cache_time |-> cacheTime, total |-> total]

(* fileExists: os.Stat did not report "not exist" *)
fileExists(file) == file.kind # "absent"

(* readCacheFile: os.ReadFile and json.Unmarshal *)
readCacheFile(file) ==
    IF file.kind = "snapshot"
    THEN [err |-> FALSE, Data |-> file.data, CacheTime |-> file.cache_time, Total |-> file.total]
    ELSE [err |-> TRUE, Data |-> <<>>, CacheTime |-> 0, Total |-> 0]

(* time.Since(cache.CacheTime) > cacheValidDuration *)
cacheExpiredAtBoundary(age) == age >= cacheValidDuration

cacheExpired(age) == age > cacheValidDuration

isCacheValid(file, t) ==
    /\ fileExists(file)
    /\ ~readCacheFile(file).err
    /\ ~cacheExpired(t - readCacheFile(file).CacheTime)

(* fetchFromAPI's checks of the response, in the code's order *)
fetchErrorNoCodeCheck(resp) ==
    IF resp.err THEN "request"
    ELSE IF resp.status # 200 THEN "status"
    ELSE IF ~resp.readOk THEN "read"
    ELSE IF ~resp.json THEN "json"
    ELSE ""

fetchError(resp) ==
    IF resp.err THEN "request"
    ELSE IF resp.status # 200 THEN "status"
    ELSE IF ~resp.readOk THEN "read"
    ELSE IF ~resp.json THEN "json"
    ELSE IF resp.code # 200 THEN "api"
    ELSE ""

(* sort.Slice(proxies, Speed descending): not stable, so every order of    *)
(* equal speeds is possible.                                               *)
RECURSIVE sortOrders(_, _)
sortOrders(list, left) ==
    IF left = {} THEN {<<>>}
    ELSE LET top == {i \in left : \A j \in left : list[i].speed >= list[j].speed}
         IN UNION {{<<list[i]>> \o s : s \in sortOrders(list, left \ {i})} : i \in top}

sortNotAtAll(list) == {list}

sortBySpeedDesc(list) == sortOrders(list, DOMAIN list)

(* saveToCache: "ok", or a failure that leaves the file as it was (MkdirAll, *)
(* opening the file), or one that leaves it truncated (the write itself).   *)
SaveOutcomes == {"ok", "unchanged", "truncated"}

saveToCacheMerged(file, resp, t, sv) ==
    IF sv = "ok" THEN ProxyCache(file.data \o resp.data, t, resp.total)
    ELSE IF sv = "truncated" THEN CorruptFile
    ELSE file

saveToCacheSorted(file, resp, t, sv) ==
    IF sv = "ok"
    THEN ProxyCache(CHOOSE l \in sortOrders(resp.data, DOMAIN resp.data) : TRUE,
                    t, resp.total)
    ELSE IF sv = "truncated" THEN CorruptFile
    ELSE file

saveToCache(file, resp, t, sv) ==
    IF sv = "ok" THEN ProxyCache(resp.data, t, resp.total)
    ELSE IF sv = "truncated" THEN CorruptFile
    ELSE file

(* fetchFromAPI after an accepted response: saveToCache's error is printed *)
(* and the records of the response are returned                           *)
fetchReturnFailsOnSave(resp, sv) ==
    IF sv = "ok" THEN [data |-> resp.data, err |-> ""]
    ELSE [data |-> <<>>, err |-> "save"]

fetchReturn(resp, sv) == [data |-> resp.data, err |-> ""]

(* GetBestProxy: the score and the loop *)
Score(proxy) == 60 * proxy.speed + 4 * (1000 - proxy.latency)

bestStart == [bestScore |-> -10000, bestProxy |-> 0]

bestStep(st, proxies_, i) ==
    LET score == Score(proxies_[i])
    IN IF st.bestScore < 0 \/ score > st.bestScore
       THEN [bestScore |-> score, bestProxy |-> i]
       ELSE st

RECURSIVE bestLoop(_, _, _)
bestLoop(proxies_, i, st) ==
    IF i > Len(proxies_) THEN st
    ELSE bestLoop(proxies_, i + 1, bestStep(st, proxies_, i))

----------------------------------------------------------------------------
(* The process: initial values of what lives in its memory *)

noResponse == ApiResponse(FALSE, 0, FALSE, FALSE, 0, <<>>, 0)

gpIdle ==
    [done |-> FALSE, afterClear |-> FALSE, entry |-> AbsentFile, age |-> 0,
     valid |-> FALSE, apiCalls |-> 0, reads |-> 0, data |-> <<>>, err |-> "",
     saved |-> "", resp |-> noResponse]

noResult == [call |-> "", err |-> "", best |-> 0, via |-> 0]

Result(call, err, best, via) == [call |-> call, err |-> err, best |-> best, via |-> via]

ProcessStart ==
    /\ cmd = ""
    /\ pc = "idle"
    /\ ret = ""
    /\ gp = gpIdle
    /\ proxies = <<>>
    /\ chain = ""
    /\ attempts = <<>>
    /\ tried = 0
    /\ idx = 0
    /\ zipUrl = ""
    /\ result = noResult

procVars == <<cmd, pc, ret, gp, proxies, chain, attempts, tried, idx, zipUrl, result>>
chainVars == <<chain, attempts, tried, idx, zipUrl>>
diskVars == <<cacheFile, destFile, cleared>>

BestIdle == bProxies = <<>> /\ bI = 0 /\ bSt = bestStart /\ bPc = "off"
UrlIdle == uIn = "" /\ uOut = "" /\ uPc = "off"
NetIdle == inflight = {} /\ silent = FALSE

(* what one call of downloadWithTimeout or downloadFile meets: whether    *)
(* the URL makes a request, what client.Do gets, the status, whether      *)
(* os.Create works, the body, and after how many chunks the stream breaks *)
(* (all of them: it does not) and why                                      *)
FetchInput(kind, urlOk, do, status, createOk, body, cut, cutBy) ==
    [kind |-> kind, urlOk |-> urlOk, do |-> do, status |-> status,
     createOk |-> createOk, body |-> body, cut |-> cut, cutBy |-> cutBy]

noFetchInput == FetchInput("", FALSE, "", 0, FALSE, <<>>, 0, "")

(* the file at localPath *)
AbsentPath == [exists |-> FALSE, data |-> <<>>]

(* the locals of the call at its start *)
fetchStart ==
    [sent |-> 0, err |-> "", data |-> <<>>, ctxLive |-> FALSE, bodyOpen |-> FALSE,
     fileOpen |-> FALSE, created |-> FALSE, copied |-> 0, defers |-> <<>>,
     before |-> AbsentPath]

FetchIdle ==
    /\ fIn = noFetchInput
    /\ fPc = "idle"
    /\ fSt = fetchStart
    /\ fFile = AbsentPath
    /\ fN = 0

----------------------------------------------------------------------------
(* time passes; the program reads the clock in isCacheValid and saveToCache *)
Tick ==
    /\ pc \in {"idle", "isCacheValid", "fetchFromAPI"}
    /\ now + TickHours <= MaxTime
    /\ now' = now + TickHours
    /\ UNCHANGED <<diskVars, procVars, bestVars, urlVars, netVars, fetchVars, other>>

----------------------------------------------------------------------------
(* GetProxies: isCacheValid, then loadFromCache or fetchFromAPI *)

CallGetProxies(from) == pc' = "isCacheValid" /\ ret' = from

IsCacheValid ==
    /\ pc = "isCacheValid"
    /\ LET valid == isCacheValid(cacheFile, now)
       IN /\ gp' = [gpIdle EXCEPT
                      !.afterClear = cleared,
                      !.entry = cacheFile,
                      !.age = IF readCacheFile(cacheFile).err THEN 0
                              ELSE now - readCacheFile(cacheFile).CacheTime,
                      !.valid = valid,
                      !.reads = IF fileExists(cacheFile) THEN 1 ELSE 0]
          /\ pc' = IF valid THEN "loadFromCache" ELSE "fetchFromAPI"
    /\ cleared' = FALSE
    /\ UNCHANGED <<now, cacheFile, destFile, cmd, ret, proxies, chainVars, result,
                   bestVars, urlVars, netVars, fetchVars, other>>

(* loadFromCache: readCacheFile again; its error is returned *)
loadFromCacheSwallows(file) ==
    LET cache == readCacheFile(file)
    IN [err |-> "", data |-> IF cache.err THEN <<>> ELSE cache.Data]

loadFromCache(file) ==
    LET cache == readCacheFile(file)
    IN [err |-> IF cache.err THEN "cache" ELSE "",
        data |-> IF cache.err THEN <<>> ELSE cache.Data]

LoadFromCache ==
    /\ pc = "loadFromCache"
    /\ gp' = [gp EXCEPT !.done = TRUE,
                        !.reads = @ + 1,
                        !.err = loadFromCache(cacheFile).err,
                        !.data = loadFromCache(cacheFile).data]
    /\ pc' = ret
    /\ UNCHANGED <<now, diskVars, cmd, ret, proxies, chainVars, result, bestVars, urlVars, netVars, fetchVars, other>>

FetchFromAPI ==
    /\ pc = "fetchFromAPI"
    /\ \E resp \in ApiResponses, sv \in SaveOutcomes :
          IF fetchError(resp) # ""
          THEN /\ gp' = [gp EXCEPT !.done = TRUE, !.apiCalls = @ + 1,
                                   !.resp = resp, !.err = fetchError(resp)]
               /\ cacheFile' = cacheFile
          ELSE /\ gp' = [gp EXCEPT !.done = TRUE, !.apiCalls = @ + 1,
                                   !.resp = resp,
                                   !.data = fetchReturn(resp, sv).data,
                                   !.err = fetchReturn(resp, sv).err,
                                   !.saved = sv]
               /\ cacheFile' = saveToCache(cacheFile, resp, now, sv)
    /\ pc' = ret
    /\ UNCHANGED <<now, destFile, cleared, cmd, ret, proxies, chainVars, result,
                   bestVars, urlVars, netVars, fetchVars, other>>

----------------------------------------------------------------------------
(* ClearCache, called by "proxy clear" and by "proxy update" (which drops *)
(* the error it returns)                                                  *)
clearCacheNoExistsCheck(file, removeOk) ==
    IF fileExists(file) /\ removeOk
    THEN [file |-> AbsentFile, err |-> "", removed |-> TRUE]
    ELSE [file |-> file, err |-> "remove", removed |-> FALSE]

clearCache(file, removeOk) ==
    IF ~fileExists(file) THEN [file |-> file, err |-> "", removed |-> FALSE]
    ELSE IF removeOk THEN [file |-> AbsentFile, err |-> "", removed |-> TRUE]
    ELSE [file |-> file, err |-> "remove", removed |-> FALSE]

ClearCache ==
    /\ pc = "ClearCache"
    /\ \E removeOk \in BOOLEAN :
          LET c == clearCache(cacheFile, removeOk)
          IN /\ cacheFile' = c.file
             /\ cleared' = (cleared \/ c.removed)
             /\ result' = Result("ClearCache", c.err, 0, 0)
    /\ IF cmd = "update" THEN CallGetProxies("update")
       ELSE pc' = "done" /\ ret' = ret
    /\ UNCHANGED <<now, destFile, cmd, gp, proxies, chainVars, bestVars, urlVars, netVars, fetchVars, other>>

(* handleProxyCommand *)
ProxyClear ==
    /\ pc = "idle"
    /\ cmd' = "clear"
    /\ pc' = "ClearCache"
    /\ UNCHANGED <<now, diskVars, ret, gp, proxies, chainVars, result, bestVars, urlVars, netVars, fetchVars, other>>

ProxyUpdate ==
    /\ pc = "idle"
    /\ cmd' = "update"
    /\ pc' = "ClearCache"
    /\ UNCHANGED <<now, diskVars, ret, gp, proxies, chainVars, result, bestVars, urlVars, netVars, fetchVars, other>>

UpdateReturn ==
    /\ pc = "update"
    /\ result' = Result("GetProxies", gp.err, 0, 0)
    /\ proxies' = gp.data
    /\ pc' = "done"
    /\ UNCHANGED <<now, diskVars, cmd, ret, gp, chainVars, bestVars, urlVars, netVars, fetchVars, other>>

ProxyBest ==
    /\ pc = "idle"
    /\ cmd' = "best"
    /\ CallGetProxies("GetBestProxy")
    /\ UNCHANGED <<now, diskVars, gp, proxies, chainVars, result, bestVars, urlVars, netVars, fetchVars, other>>

ProxyList ==
    /\ pc = "idle"
    /\ cmd' = "list"
    /\ CallGetProxies("ListProxies")
    /\ UNCHANGED <<now, diskVars, gp, proxies, chainVars, result, bestVars, urlVars, netVars, fetchVars, other>>

(* ListProxies after its GetProxies call: an error or an empty list ends *)
(* it, otherwise it prints the list and calls GetBestProxy               *)
ListProxiesReturn ==
    /\ pc = "ListProxies"
    /\ proxies' = gp.data
    /\ IF gp.err # ""
       THEN result' = Result("ListProxies", gp.err, 0, 0) /\ pc' = "done" /\ ret' = ret
       ELSE IF Len(gp.data) = 0
       THEN result' = Result("ListProxies", "", 0, 0) /\ pc' = "done" /\ ret' = ret
       ELSE result' = result /\ CallGetProxies("GetBestProxy")
    /\ UNCHANGED <<now, diskVars, cmd, gp, chainVars, bestVars, urlVars, netVars, fetchVars, other>>

(* GetBestProxy after its GetProxies call *)
noProxiesNever(list) == Len(list) < 0

noProxies(list) == Len(list) = 0

GetBestProxyReturn ==
    /\ pc = "GetBestProxy"
    /\ proxies' = gp.data
    /\ result' = IF gp.err # "" THEN Result("GetBestProxy", gp.err, 0, 0)
                 ELSE IF noProxies(gp.data) THEN Result("GetBestProxy", "empty", 0, 0)
                 ELSE Result("GetBestProxy", "", bestLoop(gp.data, 1, bestStart).bestProxy, 0)
    /\ pc' = "done"
    /\ UNCHANGED <<now, diskVars, cmd, ret, gp, chainVars, bestVars, urlVars, netVars, fetchVars, other>>

(* the process ends; what it held in memory is gone *)
Exit ==
    /\ pc = "done"
    /\ cmd' = ""
    /\ pc' = "idle"
    /\ ret' = ""
    /\ gp' = gpIdle
    /\ proxies' = <<>>
    /\ chain' = ""
    /\ attempts' = <<>>
    /\ tried' = 0
    /\ idx' = 0
    /\ zipUrl' = ""
    /\ result' = noResult
    /\ destFile' = [destFile EXCEPT !.by = 0]
    /\ UNCHANGED <<now, cacheFile, cleared, bestVars, urlVars, netVars, fetchVars, other>>

----------------------------------------------------------------------------
(* The get command: downloadUpdateJSON, then downloadModule *)

repo == "a/b"

originUrl == "https://github.com/a/b/releases/download/v1/m.zip"

ZipUrls ==
    { originUrl,
      "https://ghproxy.cc/" \o originUrl,
      "https://gh.b52m.cn/https://mirror.ghproxy.com/" \o originUrl }

(* An update.json body: whether it is JSON of the right shape, whether it *)
(* has the key zipUrl, and the key's value                                *)
Body(json, hasZip, zip) == [json |-> json, hasZip |-> hasZip, zipUrl |-> zip]

noBody == Body(FALSE, FALSE, "")

ManifestBodies ==
    { Body(FALSE, FALSE, ""), Body(TRUE, FALSE, ""), Body(TRUE, TRUE, "") }
    \cup { Body(TRUE, TRUE, u) : u \in ZipUrls }

(* parseUpdateJSON: json.Unmarshal leaves ZipURL "" when the key is absent *)
parseUpdateJSONNoZipCheck(data) ==
    IF ~data.json THEN [err |-> "json", ZipURL |-> ""]
    ELSE [err |-> "", ZipURL |-> IF data.hasZip THEN data.zipUrl ELSE ""]

parseUpdateJSON(data) ==
    IF ~data.json THEN [err |-> "json", ZipURL |-> ""]
    ELSE LET ZipURL == IF data.hasZip THEN data.zipUrl ELSE ""
         IN IF ZipURL = "" THEN [err |-> "nozip", ZipURL |-> ""]
            ELSE [err |-> "", ZipURL |-> ZipURL]

(* downloadWithTimeout: client.Do fails (transport, deadline), the status *)
(* is not 200, reading the body fails, or the body is returned            *)
FetchOutcomes == {"transport", "status", "read", "ok"}

(* downloadFile: as above, then os.Create fails, io.Copy fails, or success *)
FileOutcomes == {"transport", "status", "create", "copy", "ok"}

Attempt(url, timeout, ok, body) ==
    [url |-> url, timeout |-> timeout, ok |-> ok, body |-> body]

AbsentDest == [state |-> "absent", by |-> 0]

(* what downloadFile leaves at localPath; n is the attempt's number *)
downloadFileWrites(file, o, n) ==
    IF o = "ok" THEN [state |-> "complete", by |-> n]
    ELSE IF o = "copy" THEN [state |-> "partial", by |-> n]
    ELSE file

(* if err == nil { return ... } after a direct attempt: the chain goes on *)
(* to the proxies only when the attempt failed                            *)
directFailedAlways(o) == TRUE

directFailed(o) == o # "ok"

(* originalURL := updateInfo.ZipURL *)
payloadOriginalURLCanonical(zip) == extractGitHubURL(zip)

payloadOriginalURL(zip) == zip

(* the loop guard of both chains *)
loopEndsOffByOne(list, i, t) == i > Len(list) \/ t > maxRetry

loopEndsNoCeiling(list, i, t) == i > Len(list)

loopEnds(list, i, t) == i > Len(list) \/ t >= maxRetry

GetCommand ==
    /\ pc = "idle"
    /\ cmd' = "get"
    /\ pc' = "downloadUpdateJSON"
    /\ UNCHANGED <<now, diskVars, ret, gp, proxies, chainVars, result, bestVars, urlVars, netVars, fetchVars, other>>

(* the end of a manifest attempt: parse on success and return *)
ManifestDone(data) ==
    LET info == parseUpdateJSON(data)
    IN /\ result' = Result("downloadUpdateJSON", info.err, 0, Len(attempts'))
       /\ zipUrl' = info.ZipURL
       /\ pc' = IF info.err = "" THEN "downloadModule" ELSE "done"

(* downloadUpdateJSON: the direct attempt *)
UpdateJSONDirect ==
    /\ pc = "downloadUpdateJSON"
    /\ chain' = "manifest"
    /\ \E o \in FetchOutcomes, data \in ManifestBodies :
          /\ attempts' = <<Attempt(buildUpdateURL(repo), manifestTimeout, o = "ok",
                                    IF o = "ok" THEN data ELSE noBody)>>
          /\ IF ~directFailed(o)
             THEN /\ ManifestDone(data)
                  /\ ret' = ret
             ELSE /\ CallGetProxies("updateJSONProxies")
                  /\ UNCHANGED <<zipUrl, result>>
    /\ UNCHANGED <<now, diskVars, cmd, gp, proxies, tried, idx, bestVars, urlVars, netVars, fetchVars, other>>

(* downloadUpdateJSON after GetProxies: an error ends it, else sort *)
UpdateJSONProxies ==
    /\ pc = "updateJSONProxies"
    /\ IF gp.err # ""
       THEN /\ result' = Result("downloadUpdateJSON", "proxylist", 0, 0)
            /\ pc' = "done"
            /\ UNCHANGED <<proxies, tried, idx>>
       ELSE /\ proxies' \in sortBySpeedDesc(gp.data)
            /\ tried' = 0
            /\ idx' = 1
            /\ pc' = "updateJSONLoop"
            /\ result' = result
    /\ gp' = gpIdle
    /\ UNCHANGED <<now, diskVars, cmd, ret, chain, attempts, zipUrl, bestVars, urlVars, netVars, fetchVars, other>>

(* downloadUpdateJSON: one turn of the loop over the sorted proxies *)
UpdateJSONLoop ==
    /\ pc = "updateJSONLoop"
    /\ IF loopEnds(proxies, idx, tried)
       THEN /\ result' = Result("downloadUpdateJSON", "allfailed", 0, 0)
            /\ pc' = "done"
            /\ UNCHANGED <<attempts, tried, idx, zipUrl>>
       ELSE \E o \in FetchOutcomes, data \in ManifestBodies :
               LET proxyURL == proxyURLFor(proxies[idx], buildUpdateURL(repo))
               IN IF o = "ok"
                  THEN /\ attempts' = Append(attempts,
                                         Attempt(proxyURL, manifestTimeout, TRUE, data))
                       /\ ManifestDone(data)
                       /\ UNCHANGED <<tried, idx>>
                  ELSE /\ attempts' = Append(attempts,
                                         Attempt(proxyURL, manifestTimeout, FALSE, noBody))
                       /\ tried' = tried + 1
                       /\ idx' = idx + 1
                       /\ UNCHANGED <<pc, zipUrl, result>>
    /\ UNCHANGED <<now, diskVars, cmd, ret, gp, proxies, chain, bestVars, urlVars, netVars, fetchVars, other>>

(* downloadModule: MkdirAll, then the attempt on updateInfo.ZipURL *)
DownloadModule ==
    /\ pc = "downloadModule"
    /\ chain' = "payload"
    /\ \E mkdirOk \in BOOLEAN, o \in FileOutcomes :
          IF ~mkdirOk
          THEN /\ attempts' = <<>>
               /\ result' = Result("downloadModule", "mkdir", 0, 0)
               /\ pc' = "done"
               /\ UNCHANGED <<destFile, ret>>
          ELSE /\ attempts' = <<Attempt(payloadOriginalURL(zipUrl), payloadTimeout,
                                         o = "ok", noBody)>>
               /\ destFile' = downloadFileWrites(destFile, o, 1)
               /\ IF ~directFailed(o)
                  THEN /\ result' = Result("downloadModule", "", 0, 1)
                       /\ pc' = "done"
                       /\ ret' = ret
                  ELSE /\ result' = result
                       /\ IF extractGitHubURL(zipUrl) # zipUrl
                          THEN pc' = "downloadModuleGitHub" /\ ret' = ret
                          ELSE CallGetProxies("downloadWithProxies")
    /\ proxies' = <<>>
    /\ tried' = 0
    /\ idx' = 0
    /\ UNCHANGED <<now, cacheFile, cleared, cmd, gp, zipUrl, bestVars, urlVars, netVars, fetchVars, other>>

(* downloadModule: the attempt on the extracted GitHub URL *)
DownloadModuleGitHub ==
    /\ pc = "downloadModuleGitHub"
    /\ \E o \in FileOutcomes :
          /\ attempts' = Append(attempts,
                            Attempt(extractGitHubURL(zipUrl), payloadTimeout, o = "ok", noBody))
          /\ destFile' = downloadFileWrites(destFile, o, Len(attempts) + 1)
          /\ IF ~directFailed(o)
             THEN /\ result' = Result("downloadModule", "", 0, Len(attempts) + 1)
                  /\ pc' = "done"
                  /\ ret' = ret
             ELSE /\ result' = result
                  /\ CallGetProxies("downloadWithProxies")
    /\ UNCHANGED <<now, cacheFile, cleared, cmd, gp, proxies, chain, tried, idx, zipUrl,
                   bestVars, urlVars, netVars, fetchVars, other>>

(* downloadWithProxies after GetProxies *)
DownloadWithProxies ==
    /\ pc = "downloadWithProxies"
    /\ IF gp.err # ""
       THEN /\ result' = Result("downloadModule", "proxylist", 0, 0)
            /\ pc' = "done"
            /\ UNCHANGED <<proxies, tried, idx>>
       ELSE /\ proxies' \in sortBySpeedDesc(gp.data)
            /\ tried' = 0
            /\ idx' = 1
            /\ pc' = "downloadWithProxiesLoop"
            /\ result' = result
    /\ gp' = gpIdle
    /\ UNCHANGED <<now, diskVars, cmd, ret, chain, attempts, zipUrl, bestVars, urlVars, netVars, fetchVars, other>>

(* downloadWithProxies: one turn of the loop; originalURL is githubURL *)
DownloadWithProxiesLoop ==
    /\ pc = "downloadWithProxiesLoop"
    /\ IF loopEnds(proxies, idx, tried)
       THEN /\ result' = Result("downloadModule", "allfailed", 0, 0)
            /\ pc' = "done"
            /\ UNCHANGED <<attempts, tried, idx, destFile>>
       ELSE \E o \in FileOutcomes :
               LET proxyURL == proxyURLFor(proxies[idx], extractGitHubURL(zipUrl))
               IN /\ attempts' = Append(attempts,
                                    Attempt(proxyURL, payloadTimeout, o = "ok", noBody))
                  /\ destFile' = downloadFileWrites(destFile, o, Len(attempts) + 1)
                  /\ IF o = "ok"
                     THEN /\ result' = Result("downloadModule", "", 0, Len(attempts) + 1)
                          /\ pc' = "done"
                          /\ UNCHANGED <<tried, idx>>
                     ELSE /\ tried' = tried + 1
                          /\ idx' = idx + 1
                          /\ UNCHANGED <<pc, result>>
    /\ UNCHANGED <<now, cacheFile, cleared, cmd, ret, gp, proxies, chain, zipUrl,
                   bestVars, urlVars, netVars, fetchVars, other>>

----------------------------------------------------------------------------
Init ==
    /\ now = 0
    /\ cacheFile = AbsentFile
    /\ destFile = AbsentDest
    /\ cleared = FALSE
    /\ ProcessStart
    /\ BestIdle
    /\ UrlIdle
    /\ NetIdle
    /\ FetchIdle
    /\ other = ""

Next ==
    \/ Tick
    \/ ProxyList
    \/ ProxyBest
    \/ ProxyUpdate
    \/ ProxyClear
    \/ GetCommand
    \/ IsCacheValid
    \/ LoadFromCache
    \/ FetchFromAPI
    \/ ClearCache
    \/ UpdateReturn
    \/ ListProxiesReturn
    \/ GetBestProxyReturn
    \/ UpdateJSONDirect
    \/ UpdateJSONProxies
    \/ UpdateJSONLoop
    \/ DownloadModule
    \/ DownloadModuleGitHub
    \/ DownloadWithProxies
    \/ DownloadWithProxiesLoop
    \/ Exit

Spec == Init /\ [][Next]_vars

----------------------------------------------------------------------------
(* GetBestProxy's check and loop, run step by step on lists of its own *)

BestRecords ==
    { [url |-> "https://b.example", latency |-> 1500, speed |-> 0],
      [url |-> "https://b.example", latency |-> 3000, speed |-> 0],
      [url |-> "https://b.example", latency |-> 1000, speed |-> 0],
      [url |-> "https://b.example", latency |-> 1150, speed |-> 10],
      [url |-> "https://b.example", latency |-> 50, speed |-> 100],
      [url |-> "https://b.example", latency |-> 800, speed |-> 150] }

BestLists == UNION {[1..n -> BestRecords] : n \in 0..MaxBestLen}

BestCheck ==
    /\ bPc = "start"
    /\ bPc' = IF noProxies(bProxies) THEN "error" ELSE "loop"
    /\ UNCHANGED <<bProxies, bI, bSt, mainVars, urlVars, netVars, fetchVars, other>>

BestIterate ==
    /\ bPc = "loop"
    /\ bI <= Len(bProxies)
    /\ bSt' = bestStep(bSt, bProxies, bI)
    /\ bI' = bI + 1
    /\ UNCHANGED <<bProxies, bPc, mainVars, urlVars, netVars, fetchVars, other>>

BestReturn ==
    /\ bPc = "loop"
    /\ bI > Len(bProxies)
    /\ bPc' = "done"
    /\ UNCHANGED <<bProxies, bI, bSt, mainVars, urlVars, netVars, fetchVars, other>>

InitBest ==
    /\ now = 0
    /\ cacheFile = AbsentFile
    /\ destFile = AbsentDest
    /\ cleared = FALSE
    /\ ProcessStart
    /\ UrlIdle
    /\ NetIdle
    /\ FetchIdle
    /\ other = ""
    /\ bProxies \in BestLists
    /\ bI = 1
    /\ bSt = bestStart
    /\ bPc = "start"

NextBest == BestCheck \/ BestIterate \/ BestReturn

SpecBest == InitBest /\ [][NextBest]_vars

----------------------------------------------------------------------------
(* extractGitHubURL run on URLs of its own: a head, known prefixes stacked *)
(* behind it, and a tail                                                   *)

KnownPrefixes == {prefixes[k] : k \in DOMAIN prefixes}

UrlHeads ==
    KnownPrefixes \cup
    { "", "https://ghproxy.cc", "http://ghproxy.cc/", "https://ghproxy.com/",
      "ghproxy.cn/", "https://gh-proxy.example/", "https://github.moeyy.xyz",
      "HTTPS://GHPROXY.CC/" }

RECURSIVE UrlStacks(_)
UrlStacks(n) ==
    IF n = 0 THEN {""}
    ELSE UrlStacks(n - 1) \cup {p \o s : p \in KnownPrefixes, s \in UrlStacks(n - 1)}

UrlTails == {originUrl, "https://example.com/x.zip", ""}

UrlInputs == {h \o m \o t : h \in UrlHeads, m \in UrlStacks(MaxStack), t \in UrlTails}

UrlExtract ==
    /\ uPc = "call"
    /\ uOut' = extractGitHubURL(uIn)
    /\ uPc' = "done"
    /\ UNCHANGED <<uIn, mainVars, bestVars, netVars, fetchVars, other>>

InitUrl ==
    /\ now = 0
    /\ cacheFile = AbsentFile
    /\ destFile = AbsentDest
    /\ cleared = FALSE
    /\ ProcessStart
    /\ BestIdle
    /\ NetIdle
    /\ FetchIdle
    /\ other = ""
    /\ uIn \in UrlInputs
    /\ uOut = ""
    /\ uPc = "call"

NextUrl == UrlExtract

SpecUrl == InitUrl /\ [][NextUrl]_vars

----------------------------------------------------------------------------
(* One chain run request by request: client.Do sends a request and blocks  *)
(* until the endpoint answers or the request's context deadline passes;    *)
(* http.Get(githubProxyAPI) uses http.DefaultClient, which has no deadline *)

githubProxyAPI == "https://api.akams.cn/github"

noTimeout == 0

Request(url, timeout) == [url |-> url, timeout |-> timeout]

(* client.Do(req) / http.Get(url): the request is on the wire *)
netIssue(flight, url, timeout) == flight \cup {Request(url, timeout)}

(* client.Do has returned and the deferred cancel() and Body.Close() ran *)
netCompleteLeaks(flight, url) == flight

netComplete(flight, url) == {r \in flight : r.url # url}

netFirstURL == IF chain = "payload" THEN payloadOriginalURL(zipUrl) ELSE buildUpdateURL(repo)

netChainURL == IF chain = "payload" THEN extractGitHubURL(zipUrl) ELSE buildUpdateURL(repo)

netTimeout == IF chain = "payload" THEN payloadTimeout ELSE manifestTimeout

netCall == IF chain = "payload" THEN "downloadModule" ELSE "downloadUpdateJSON"

NetWaits == {"waitDirect", "waitGitHub", "waitMirror"}

(* the URL of the request the chain is blocked on *)
netAwaitedURL ==
    IF pc = "waitDirect" THEN netFirstURL
    ELSE IF pc = "waitGitHub" THEN extractGitHubURL(zipUrl)
    ELSE proxyURLFor(proxies[idx], netChainURL)

(* the direct attempt is sent *)
NetDirect ==
    /\ pc = "direct"
    /\ inflight' = netIssue(inflight, netFirstURL, netTimeout)
    /\ pc' = "waitDirect"
    /\ UNCHANGED <<now, diskVars, cmd, ret, gp, proxies, chainVars, result,
                   bestVars, urlVars, silent, fetchVars, other>>

(* downloadModule: the attempt on the extracted GitHub URL is sent *)
NetGitHub ==
    /\ pc = "github"
    /\ inflight' = netIssue(inflight, extractGitHubURL(zipUrl), netTimeout)
    /\ pc' = "waitGitHub"
    /\ UNCHANGED <<now, diskVars, cmd, ret, gp, proxies, chainVars, result,
                   bestVars, urlVars, silent, fetchVars, other>>

(* GetProxies: a valid cache gives the list, which is sorted; otherwise   *)
(* the directory service is queried                                        *)
NetGetProxies ==
    /\ pc = "GetProxies"
    /\ IF isCacheValid(cacheFile, now)
       THEN /\ proxies' \in sortBySpeedDesc(readCacheFile(cacheFile).Data)
            /\ tried' = 0
            /\ idx' = 1
            /\ pc' = "loop"
            /\ inflight' = inflight
       ELSE /\ inflight' = netIssue(inflight, githubProxyAPI, noTimeout)
            /\ pc' = "waitDirectory"
            /\ UNCHANGED <<proxies, tried, idx>>
    /\ UNCHANGED <<now, diskVars, cmd, ret, gp, chain, attempts, zipUrl, result,
                   bestVars, urlVars, silent, fetchVars, other>>

(* the directory service answers *)
NetDirectoryAnswer ==
    /\ pc = "waitDirectory"
    /\ ~silent
    /\ inflight' = netComplete(inflight, githubProxyAPI)
    /\ \E resp \in ApiResponses, sv \in SaveOutcomes :
          IF fetchError(resp) # ""
          THEN /\ result' = Result(netCall, "proxylist", 0, 0)
               /\ pc' = "done"
               /\ UNCHANGED <<cacheFile, proxies, tried, idx>>
          ELSE /\ cacheFile' = saveToCache(cacheFile, resp, now, sv)
               /\ proxies' \in sortBySpeedDesc(fetchReturn(resp, sv).data)
               /\ tried' = 0
               /\ idx' = 1
               /\ pc' = "loop"
               /\ result' = result
    /\ UNCHANGED <<now, destFile, cleared, cmd, ret, gp, chain, attempts, zipUrl,
                   bestVars, urlVars, silent, fetchVars, other>>

(* the loop over the sorted proxies: it ends, or the next request is sent *)
NetMirror ==
    /\ pc = "loop"
    /\ IF loopEnds(proxies, idx, tried)
       THEN /\ result' = Result(netCall, "allfailed", 0, 0)
            /\ pc' = "done"
            /\ inflight' = inflight
       ELSE /\ inflight' = netIssue(inflight, proxyURLFor(proxies[idx], netChainURL),
                                     netTimeout)
            /\ pc' = "waitMirror"
            /\ result' = result
    /\ UNCHANGED <<now, diskVars, cmd, ret, gp, proxies, chainVars,
                   bestVars, urlVars, silent, fetchVars, other>>

(* the request the chain is blocked on ends with outcome o *)
NetAttemptEnds(o) ==
    /\ inflight' = netComplete(inflight, netAwaitedURL)
    /\ attempts' = Append(attempts, Attempt(netAwaitedURL, netTimeout, o = "ok", noBody))
    /\ IF pc = "waitMirror"
       THEN IF o = "ok"
            THEN /\ result' = Result(netCall, "", 0, Len(attempts) + 1)
                 /\ pc' = "done"
                 /\ UNCHANGED <<tried, idx>>
            ELSE /\ tried' = tried + 1
                 /\ idx' = idx + 1
                 /\ pc' = "loop"
                 /\ result' = result
       ELSE /\ IF ~directFailed(o)
               THEN /\ result' = Result(netCall, "", 0, Len(attempts) + 1)
                    /\ pc' = "done"
               ELSE /\ result' = result
                    /\ pc' = IF pc = "waitDirect" /\ chain = "payload"
                                  /\ extractGitHubURL(zipUrl) # zipUrl
                              THEN "github" ELSE "GetProxies"
            /\ UNCHANGED <<tried, idx>>
    /\ UNCHANGED <<now, diskVars, cmd, ret, gp, proxies, chain, zipUrl,
                   bestVars, urlVars, silent, fetchVars, other>>

(* the endpoint answers: the body, or a status other than 200, or the     *)
(* connection breaks                                                       *)
NetAnswer ==
    /\ pc \in NetWaits
    /\ ~silent
    /\ \E o \in {"ok", "status", "transport"} : NetAttemptEnds(o)

(* context.WithTimeout: the deadline passes, the request is cancelled and *)
(* client.Do returns an error                                              *)
NetDeadline ==
    /\ pc \in NetWaits
    /\ \E r \in inflight : r.url = netAwaitedURL /\ r.timeout > noTimeout
    /\ NetAttemptEnds("transport")

NetCaches == {AbsentFile, CorruptFile} \cup {ProxyCache(l, 0, Len(l)) : l \in ApiLists}

InitNet ==
    /\ now \in {0, MaxTime}
    /\ cacheFile \in NetCaches
    /\ destFile = AbsentDest
    /\ cleared = FALSE
    /\ cmd = "get"
    /\ pc = "direct"
    /\ ret = ""
    /\ gp = gpIdle
    /\ proxies = <<>>
    /\ chain \in {"manifest", "payload"}
    /\ attempts = <<>>
    /\ tried = 0
    /\ idx = 0
    /\ zipUrl \in (IF chain = "payload" THEN ZipUrls ELSE {""})
    /\ result = noResult
    /\ BestIdle
    /\ UrlIdle
    /\ inflight = {}
    /\ silent \in BOOLEAN
    /\ FetchIdle
    /\ other = ""

NextNet ==
    \/ NetDirect
    \/ NetGitHub
    \/ NetGetProxies
    \/ NetDirectoryAnswer
    \/ NetMirror
    \/ NetAnswer
    \/ NetDeadline

(* the process keeps running and the runtime's timers fire; nothing makes *)
(* a remote endpoint answer                                                *)
SpecNet ==
    /\ InitNet
    /\ [][NextNet]_vars
    /\ WF_vars(NetDirect)
    /\ WF_vars(NetGitHub)
    /\ WF_vars(NetGetProxies)
    /\ WF_vars(NetMirror)
    /\ WF_vars(NetDeadline)

----------------------------------------------------------------------------
(* downloadWithTimeout and downloadFile run step by step, the caller      *)
(* calling again after a failure, on the same localPath                    *)

MaxChunks == 3      \* chunks of the longest body
MaxFetches == 2     \* calls the caller makes on one localPath

(* resp.StatusCode != http.StatusOK *)
statusNotError(code) == code < 400

statusOK(code) == code = 200

Statuses == {200, 204, 404, 500}

(* the body of origin o, n chunks long *)
Chunks(o, n) == [i \in 1..n |-> <<o, i>>]

Bodies == {Chunks("a", MaxChunks), Chunks("b", 1)}

FetchKinds == {"bytes", "file"}

FetchInputs ==
    { FetchInput(k, FALSE, "", 0, FALSE, <<>>, 0, "") : k \in FetchKinds }
    \cup { FetchInput(k, TRUE, d, 0, FALSE, <<>>, 0, "") :
              k \in FetchKinds, d \in {"transport", "deadline"} }
    \cup { FetchInput(k, TRUE, "response", st, FALSE, <<>>, 0, "") :
              k \in FetchKinds, st \in Statuses \ {200} }
    \cup { FetchInput("file", TRUE, "response", 200, FALSE, b, Len(b), "") : b \in Bodies }
    \cup { FetchInput(k, TRUE, "response", 200, TRUE, b, Len(b), "") :
              k \in FetchKinds, b \in Bodies }
    \cup UNION { { FetchInput(k, TRUE, "response", 200, TRUE, b, c, by) :
                      c \in 0..(Len(b) - 1) } :
                  k \in FetchKinds, b \in Bodies, by \in {"transport", "deadline"} }

(* os.Create(localPath): the file is created or truncated to nothing *)
osCreateNoTruncate(file) == [exists |-> TRUE, data |-> file.data]

osCreate(file) == [exists |-> TRUE, data |-> <<>>]

(* a write of one chunk at chunk offset k of the open file *)
writeAt(file, k, chunk) ==
    [file EXCEPT !.data = IF k <= Len(@) THEN [@ EXCEPT ![k] = chunk]
                          ELSE Append(@, chunk)]

(* defer file.Close() *)
deferNothing(defs) == defs

deferFileClose(defs) == <<"file.Close">> \o defs

(* the deferred calls run when the function returns *)
runDefers(st) ==
    LET ran == {st.defers[i] : i \in DOMAIN st.defers}
    IN [st EXCEPT !.ctxLive = @ /\ "cancel" \notin ran,
                  !.bodyOpen = @ /\ "Body.Close" \notin ran,
                  !.fileOpen = @ /\ "file.Close" \notin ran,
                  !.defers = <<>>]

(* context.WithTimeout, defer cancel(), http.NewRequestWithContext *)
FetchBegin ==
    /\ fPc \in {"idle", "done"}
    /\ fPc = "done" => fSt.err # ""
    /\ fN < MaxFetches
    /\ \E in \in FetchInputs :
          /\ fIn' = in
          /\ fSt' = [fetchStart EXCEPT !.ctxLive = TRUE, !.defers = <<"cancel">>,
                                        !.before = fFile,
                                        !.err = IF in.urlOk THEN "" ELSE "request"]
          /\ fPc' = IF in.urlOk THEN "Do" ELSE "return"
    /\ fN' = fN + 1
    /\ UNCHANGED <<fFile, mainVars, bestVars, urlVars, netVars, other>>

(* client.Do(req), defer resp.Body.Close() *)
FetchDo ==
    /\ fPc = "Do"
    /\ IF fIn.do = "response"
       THEN /\ fSt' = [fSt EXCEPT !.sent = @ + 1, !.bodyOpen = TRUE,
                                   !.defers = <<"Body.Close">> \o @]
            /\ fPc' = "status"
       ELSE /\ fSt' = [fSt EXCEPT !.sent = @ + 1, !.err = fIn.do]
            /\ fPc' = "return"
    /\ UNCHANGED <<fIn, fFile, fN, mainVars, bestVars, urlVars, netVars, other>>

(* the status check *)
FetchStatus ==
    /\ fPc = "status"
    /\ IF statusOK(fIn.status)
       THEN /\ fPc' = IF fIn.kind = "file" THEN "create" ELSE "read"
            /\ fSt' = fSt
       ELSE /\ fSt' = [fSt EXCEPT !.err = "status"]
            /\ fPc' = "return"
    /\ UNCHANGED <<fIn, fFile, fN, mainVars, bestVars, urlVars, netVars, other>>

(* downloadWithTimeout: return io.ReadAll(resp.Body) *)
FetchReadAll ==
    /\ fPc = "read"
    /\ fSt' = [fSt EXCEPT !.data = SubSeq(fIn.body, 1, fIn.cut),
                          !.copied = fIn.cut,
                          !.err = IF fIn.cut = Len(fIn.body) THEN "" ELSE fIn.cutBy]
    /\ fPc' = "return"
    /\ UNCHANGED <<fIn, fFile, fN, mainVars, bestVars, urlVars, netVars, other>>

(* downloadFile: os.Create(localPath), defer file.Close() *)
FetchCreate ==
    /\ fPc = "create"
    /\ IF fIn.createOk
       THEN /\ fFile' = osCreate(fFile)
            /\ fSt' = [fSt EXCEPT !.fileOpen = TRUE, !.created = TRUE,
                                   !.defers = deferFileClose(@)]
            /\ fPc' = "copy"
       ELSE /\ fFile' = fFile
            /\ fSt' = [fSt EXCEPT !.err = "create"]
            /\ fPc' = "return"
    /\ UNCHANGED <<fIn, fN, mainVars, bestVars, urlVars, netVars, other>>

(* downloadFile: io.Copy(file, resp.Body), one chunk, or its end *)
FetchCopy ==
    /\ fPc = "copy"
    /\ IF fSt.copied < fIn.cut
       THEN /\ fFile' = writeAt(fFile, fSt.copied + 1, fIn.body[fSt.copied + 1])
            /\ fSt' = [fSt EXCEPT !.copied = @ + 1]
            /\ fPc' = fPc
       ELSE /\ fFile' = fFile
            /\ fSt' = [fSt EXCEPT !.err = IF fIn.cut = Len(fIn.body) THEN "" ELSE fIn.cutBy]
            /\ fPc' = "return"
    /\ UNCHANGED <<fIn, fN, mainVars, bestVars, urlVars, netVars, other>>

(* return: the deferred calls run *)
FetchReturn ==
    /\ fPc = "return"
    /\ fSt' = runDefers(fSt)
    /\ fPc' = "done"
    /\ UNCHANGED <<fIn, fFile, fN, mainVars, bestVars, urlVars, netVars, other>>

InitFetch ==
    /\ now = 0
    /\ cacheFile = AbsentFile
    /\ destFile = AbsentDest
    /\ cleared = FALSE
    /\ ProcessStart
    /\ BestIdle
    /\ UrlIdle
    /\ NetIdle
    /\ FetchIdle
    /\ other = ""

NextFetch ==
    \/ FetchBegin
    \/ FetchDo
    \/ FetchStatus
    \/ FetchReadAll
    \/ FetchCreate
    \/ FetchCopy
    \/ FetchReturn

SpecFetch == InitFetch /\ [][NextFetch]_vars

----------------------------------------------------------------------------
(* GetProxies of one process while another process of the same user uses  *)
(* the same cache file: nothing locks the file between isCacheValid and    *)
(* loadFromCache                                                           *)

RaceCaches ==
    {AbsentFile, CorruptFile}
    \cup {ProxyCache(l, t, Len(l)) : l \in ApiLists, t \in {0, TickHours}}

(* the other process between the two reads: its ClearCache removes the    *)
(* file, or the saveToCache of its fetchFromAPI rewrites it, or its        *)
(* os.WriteFile has truncated the file and not yet written it              *)
RaceOther ==
    /\ pc = "loadFromCache"
    /\ other = ""
    /\ \/ /\ cacheFile' = clearCache(cacheFile, TRUE).file
          /\ other' = "removed"
       \/ \E resp \in ApiResponses, sv \in {"ok", "truncated"} :
             /\ fetchError(resp) = ""
             /\ cacheFile' = saveToCache(cacheFile, resp, now, sv)
             /\ other' = IF sv = "ok" THEN "rewrote" ELSE "writing"
    /\ UNCHANGED <<now, destFile, cleared, procVars, bestVars, urlVars, netVars, fetchVars>>

InitRace ==
    /\ now \in {0, TickHours, MaxTime}
    /\ cacheFile \in RaceCaches
    /\ destFile = AbsentDest
    /\ cleared = FALSE
    /\ cmd = "list"
    /\ pc = "isCacheValid"
    /\ ret = "done"
    /\ gp = gpIdle
    /\ proxies = <<>>
    /\ chain = ""
    /\ attempts = <<>>
    /\ tried = 0
    /\ idx = 0
    /\ zipUrl = ""
    /\ result = noResult
    /\ BestIdle
    /\ UrlIdle
    /\ NetIdle
    /\ FetchIdle
    /\ other = ""

NextRace ==
    \/ IsCacheValid
    \/ RaceOther
    \/ LoadFromCache
    \/ FetchFromAPI

SpecRace == InitRace /\ [][NextRace]_vars

----------------------------------------------------------------------------
(* Properties *)

Last(seq) == seq[Len(seq)]

HasKnownPrefix(url) == \E k \in DOMAIN prefixes : HasPrefix(url, prefixes[k])

(* the attempts a chain makes before its first mirror *)
DirectAttempts == IF chain = "payload" /\ HasKnownPrefix(zipUrl) THEN 2 ELSE 1

(* the URL the mirrors of the current chain are put in front of *)
ChainURL == IF chain = "payload" THEN extractGitHubURL(zipUrl) ELSE buildUpdateURL(repo)

(* C1: when GetProxies finds a parseable snapshot, an age of at most 10    *)
(* hours means no directory-service call and exactly the snapshot's        *)
(* records, in their order, and an age above 10 hours means exactly one    *)
(* directory-service call.                                                 *)
C1_SnapshotAgeDecidesQuery ==
    (gp.done /\ gp.entry.kind = "snapshot") =>
        IF gp.age <= cacheValidDuration
        THEN gp.apiCalls = 0 /\ gp.err = "" /\ gp.data = gp.entry.data
        ELSE gp.apiCalls = 1

C1_Witness ==
    /\ gp.done
    /\ gp.entry.kind = "snapshot"
    /\ gp.age = cacheValidDuration
    /\ gp.apiCalls = 0
    /\ gp.data = TieList

(* C2 as stated: every chain, of a manifest or of a payload, makes at most *)
(* 1 + 10 network fetch attempts.                                           *)
C2_AtMostElevenAttempts == Len(attempts) <= 1 + maxRetry

(* C2 as amended: a chain makes at most 1 + 10 attempts, except the chain  *)
(* of a payload whose URL starts with a known mirror prefix, which makes   *)
(* at most 2 + 10: the URL as given, the extracted URL, at most 10 mirrors.*)
C2_AttemptCeiling ==
    /\ Len(attempts) <= DirectAttempts + maxRetry
    /\ tried <= maxRetry
    /\ Len(attempts) <= DirectAttempts + tried + 1

C2_Witness ==
    /\ chain = "payload"
    /\ HasKnownPrefix(zipUrl)
    /\ Len(attempts) = 2 + maxRetry
    /\ result.err = "allfailed"

(* the chain's last attempt succeeded and was made on a mirror: the       *)
(* mirror is proxies[idx], the idx-th of the sorted list                   *)
MirrorWon == idx >= 1 /\ attempts # <<>> /\ Last(attempts).ok

StopsAtFirstSuccess ==
    /\ \A i \in 1..(Len(attempts) - 1) : ~attempts[i].ok
    /\ MirrorWon =>
         /\ idx <= maxRetry
         /\ Last(attempts).url = proxyURLFor(proxies[idx], ChainURL)
         /\ result.via = Len(attempts)
         /\ chain = "manifest" =>
              /\ result.err = parseUpdateJSON(Last(attempts).body).err
              /\ zipUrl = parseUpdateJSON(Last(attempts).body).ZipURL
         /\ chain = "payload" =>
              /\ result.err = ""
              /\ destFile = [state |-> "complete", by |-> Len(attempts)]

(* C3 as stated: no attempt follows a successful one, and when the k-th   *)
(* mirror of the ranking is the first attempt to succeed, exactly 1 + k   *)
(* attempts were made and that mirror's result is returned.                *)
C3_FirstSuccessAfterOnePlusK ==
    /\ StopsAtFirstSuccess
    /\ MirrorWon => Len(attempts) = 1 + idx

(* C3 as amended: the same, with 2 + k attempts in the chain of a payload *)
(* whose URL starts with a known mirror prefix (the URL as given and the  *)
(* extracted URL are both tried before the mirrors).                       *)
C3_FirstSuccessWins ==
    /\ StopsAtFirstSuccess
    /\ MirrorWon => Len(attempts) = DirectAttempts + idx

C3_Witness ==
    /\ MirrorWon
    /\ chain = "payload"
    /\ HasKnownPrefix(zipUrl)
    /\ idx = maxRetry
    /\ Len(attempts) = 2 + maxRetry

(* GetBestProxy's loop has returned proxy number b of the list *)
BestReturned == bPc = "done"

MaxScore(list) == CHOOSE m \in {Score(list[i]) : i \in DOMAIN list} :
                     \A j \in DOMAIN list : m >= Score(list[j])

(* C4: on a non-empty list GetBestProxy returns a record whose score is   *)
(* at least the score of every record of the list.                         *)
C4_BestHasGreatestScore ==
    BestReturned =>
        /\ bSt.bestProxy \in DOMAIN bProxies
        /\ \A j \in DOMAIN bProxies :
              Score(bProxies[bSt.bestProxy]) >= Score(bProxies[j])

(* C5: when several records share the greatest score GetBestProxy returns *)
(* the first of them in the list.                                          *)
C5_FirstOfTheBestWins ==
    BestReturned =>
        /\ bSt.bestProxy \in DOMAIN bProxies
        /\ \A j \in DOMAIN bProxies :
              Score(bProxies[j]) = MaxScore(bProxies) => bSt.bestProxy <= j

(* C6: when GetProxies succeeds with no record at all, GetBestProxy       *)
(* returns the empty-catalog error and no record.                          *)
C6_EmptyListIsAnError ==
    (result.call = "GetBestProxy" /\ gp.err = "" /\ Len(gp.data) = 0) =>
        (result.err = "empty" /\ result.best = 0)

C6_Witness ==
    /\ result.call = "GetBestProxy"
    /\ gp.done
    /\ gp.err = ""
    /\ gp.apiCalls = 1
    /\ Len(gp.data) = 0
    /\ result.err = "empty"

(* C7: extractGitHubURL removes the one known prefix its input starts     *)
(* with, and nothing more, and returns any other input unchanged.          *)
C7_StripsOneKnownPrefix ==
    uPc = "done" =>
        IF HasKnownPrefix(uIn)
        THEN \E p \in KnownPrefixes : uIn = p \o uOut
        ELSE uOut = uIn

C7_Witness ==
    /\ uPc = "done"
    /\ uIn = "https://mirror.ghproxy.com/https://ghproxy.cc/" \o originUrl
    /\ uOut = "https://ghproxy.cc/" \o originUrl


(* what one call of ClearCache may do to an absent file, and the query    *)
(* that the GetProxies call after a removal makes                          *)
ClearCacheReturns == pc = "ClearCache" /\ pc' # "ClearCache"

ClearOfAbsentFile ==
    (ClearCacheReturns /\ cacheFile.kind = "absent") =>
        (result'.err = "" /\ cacheFile' = cacheFile)

QueryAfterRemoval ==
    (gp'.done /\ gp'.afterClear) =>
        (gp'.apiCalls = 1 /\ gp'.entry.kind = "absent")

(* C8 as stated: ClearCache succeeds on an absent file and changes        *)
(* nothing; it removes an existing file; and the GetProxies call after a  *)
(* removal queries the directory service.                                  *)
C8_ClearAlwaysRemoves ==
    [][ /\ ClearOfAbsentFile
        /\ (ClearCacheReturns /\ cacheFile.kind # "absent") =>
              (result'.err = "" /\ cacheFile'.kind = "absent")
        /\ QueryAfterRemoval ]_vars

(* C8 as amended: on an existing file ClearCache either removes it and    *)
(* succeeds, or, when os.Remove fails, returns the error and leaves the   *)
(* file as it was; the rest as stated.                                     *)
C8_ClearRemovesOrReports ==
    [][ /\ ClearOfAbsentFile
        /\ (ClearCacheReturns /\ cacheFile.kind # "absent") =>
              \/ (result'.err = "" /\ cacheFile'.kind = "absent" /\ cleared')
              \/ (result'.err = "remove" /\ cacheFile' = cacheFile /\ cleared' = cleared)
        /\ QueryAfterRemoval ]_vars

C8_Witness ==
    /\ gp.done
    /\ gp.afterClear
    /\ gp.apiCalls = 1
    /\ cmd = "best"
    /\ now = cacheValidDuration

(* C9: a manifest answer that is JSON but has no zipUrl, or an empty one, *)
(* ends the get command with a parse error, and no payload attempt is     *)
(* made: the payload chain only ever runs with a non-empty zipUrl.         *)
ZipUrlMissing(body) == body.json /\ (~body.hasZip \/ body.zipUrl = "")

C9_MissingZipUrlEndsTheRun ==
    /\ (chain = "manifest" /\ attempts # <<>> /\ Last(attempts).ok
            /\ ZipUrlMissing(Last(attempts).body)) =>
          /\ result.call = "downloadUpdateJSON"
          /\ result.err = "nozip"
          /\ pc = "done"
          /\ destFile.by = 0
    /\ pc \in {"downloadModule", "downloadModuleGitHub", "downloadWithProxies",
               "downloadWithProxiesLoop"} => zipUrl # ""
    /\ chain = "payload" => zipUrl # ""

C9_Witness ==
    /\ chain = "manifest"
    /\ Len(attempts) = 3
    /\ Last(attempts).ok
    /\ Last(attempts).body = Body(TRUE, FALSE, "")
    /\ result.err = "nozip"
    /\ pc = "done"

(* C10 as stated: when the payload URL starts with a known mirror prefix, *)
(* the first attempt of the payload chain is made on the extracted URL.    *)
C10_FirstAttemptOnExtractedURL ==
    (chain = "payload" /\ attempts # <<>> /\ HasKnownPrefix(zipUrl)) =>
        attempts[1].url = extractGitHubURL(zipUrl)

(* C10 as amended: the first attempt of the payload chain is made on the  *)
(* payload URL as the manifest gives it, prefix included; when that URL   *)
(* starts with a known mirror prefix the second attempt is made on the    *)
(* extracted URL, before any mirror.                                       *)
C10_FirstAttemptOnGivenURL ==
    (chain = "payload" /\ attempts # <<>>) =>
        /\ attempts[1].url = zipUrl
        /\ (HasKnownPrefix(zipUrl) /\ Len(attempts) >= 2) =>
              attempts[2].url = extractGitHubURL(zipUrl)

C10_Witness ==
    /\ chain = "payload"
    /\ zipUrl = "https://ghproxy.cc/" \o originUrl
    /\ Len(attempts) >= 2
    /\ attempts[1].url = zipUrl
    /\ attempts[2].url = originUrl

(* the three ways a chain ends without a success after its direct attempt *)
CatalogUnobtainable == pc \in {"updateJSONProxies", "downloadWithProxies"} /\ gp.err # ""

CatalogEmpty == pc \in {"updateJSONLoop", "downloadWithProxiesLoop"} /\ proxies = <<>>

CeilingExhausted == pc \in {"updateJSONLoop", "downloadWithProxiesLoop"} /\ tried >= maxRetry

(* the step returns the error e and no data: no attempt is added, the     *)
(* manifest is nil and the path is empty                                   *)
ChainFailsWith(e) ==
    /\ pc' = "done"
    /\ result'.err = e
    /\ result'.via = 0
    /\ attempts' = attempts
    /\ ~attempts[1].ok
    /\ chain = "manifest" => zipUrl' = ""

(* C11 as stated: a chain whose direct attempt failed returns the "all    *)
(* attempts failed" error and no data when the ceiling is exhausted, when *)
(* the catalog is empty and when the catalog cannot be obtained.           *)
C11_AllAttemptsFailedInEveryCase ==
    [][ (CatalogUnobtainable \/ CatalogEmpty \/ CeilingExhausted) =>
            ChainFailsWith("allfailed") ]_vars

(* C11 as amended: the "all attempts failed" error is returned when the   *)
(* ceiling is exhausted and when the catalog is empty, always after       *)
(* failed attempts only; when the catalog cannot be obtained the chain    *)
(* returns the error "cannot get the proxy list" instead; no data is       *)
(* returned in any of the three cases.                                     *)
C11_FailedChainReturnsNoData ==
    [][ /\ (CatalogEmpty \/ CeilingExhausted) => ChainFailsWith("allfailed")
        /\ CatalogUnobtainable => ChainFailsWith("proxylist")
        /\ result'.err = "allfailed" => \A i \in DOMAIN attempts' : ~attempts'[i].ok ]_vars

C11_Witness ==
    /\ pc = "done"
    /\ result.call = "downloadModule"
    /\ result.err = "proxylist"
    /\ Len(attempts) = 2
    /\ zipUrl = "https://ghproxy.cc/" \o originUrl

(* C12: when the directory service's answer is accepted and saveToCache   *)
(* fails, GetProxies returns the records of the answer and no error, and  *)
(* the cache file is what the failed write left: as it was, or truncated. *)
C12_SaveFailureStillReturnsRecords ==
    (gp.done /\ gp.apiCalls = 1 /\ gp.saved \in {"unchanged", "truncated"}) =>
        /\ gp.err = ""
        /\ gp.data = gp.resp.data
        /\ cacheFile = IF gp.saved = "truncated" THEN CorruptFile ELSE gp.entry

C12_Witness ==
    /\ gp.done
    /\ gp.saved = "truncated"
    /\ gp.entry.kind = "snapshot"
    /\ gp.entry.data = LongList(1)
    /\ gp.data = TieList
    /\ cacheFile = CorruptFile

(* the failure modes of a directory-service answer *)
DirectoryFailure(resp) ==
    resp.err \/ resp.status # 200 \/ ~resp.readOk \/ ~resp.json \/ resp.code # 200

(* C13: a transport error, an HTTP status other than 200, a body that is  *)
(* not JSON, or an in-payload code other than 200 make GetProxies return   *)
(* an error and no records, and the cache file stays as it was.            *)
C13_DirectoryFailureChangesNothing ==
    (gp.done /\ gp.apiCalls = 1 /\ DirectoryFailure(gp.resp)) =>
        /\ gp.err # ""
        /\ gp.data = <<>>
        /\ gp.saved = ""
        /\ cacheFile = gp.entry

C13_Witness ==
    /\ gp.done
    /\ gp.resp.status = 200
    /\ gp.resp.code = 500
    /\ gp.err = "api"
    /\ gp.entry.kind = "snapshot"
    /\ cacheFile = gp.entry

(* C16: when GetProxies finds a valid snapshot it reads the cache file    *)
(* exactly once and makes no directory-service call.                       *)
C16_OneReadOnCacheHit ==
    (gp.done /\ gp.valid) => (gp.reads = 1 /\ gp.apiCalls = 0)

(* C17: when the first attempt of a chain succeeds, the chain makes no    *)
(* other attempt and GetProxies is not called: the cache file is not      *)
(* read, the directory service is not queried, the cache file stays as it *)
(* is.                                                                     *)
C17_DirectSuccessLeavesCatalogAlone ==
    [][ (attempts' # <<>> /\ attempts'[1].ok) =>
            /\ Len(attempts') = 1
            /\ pc' \in {"done", "downloadModule"}
            /\ ~gp'.done
            /\ gp'.reads = 0
            /\ gp'.apiCalls = 0
            /\ gp'.saved = ""
            /\ cacheFile' = cacheFile
            /\ cleared' = cleared ]_vars

C17_Witness ==
    /\ chain = "payload"
    /\ Len(attempts) = 1
    /\ attempts[1].ok
    /\ pc = "done"
    /\ cacheFile.kind = "snapshot"
    /\ now - cacheFile.cache_time > cacheValidDuration

(* a list in non-increasing order of speed *)
SpeedDescending(list) ==
    \A i, j \in DOMAIN list : i < j => list[i].speed >= list[j].speed

(* the number of mirror attempts the current chain has made *)
MirrorAttempts == Len(attempts) - DirectAttempts

(* C18: once a chain has its list of mirrors, the list is a list the       *)
(* catalog gave, reordered to non-increasing speed; the mirrors attempted  *)
(* are its first k, in that order, k <= 10; no untried mirror is strictly  *)
(* faster than an attempted one.                                           *)
C18_FastestMirrorsFirst ==
    idx >= 1 =>
        /\ SpeedDescending(proxies)
        /\ \E l \in ApiLists :
              /\ Len(l) = Len(proxies)
              /\ {l[i] : i \in DOMAIN l} = {proxies[i] : i \in DOMAIN proxies}
        /\ MirrorAttempts \in 0..maxRetry
        /\ MirrorAttempts <= Len(proxies)
        /\ \A j \in 1..MirrorAttempts :
              /\ attempts[DirectAttempts + j].url = proxyURLFor(proxies[j], ChainURL)
              /\ \A u \in (MirrorAttempts + 1)..Len(proxies) :
                    proxies[u].speed <= proxies[j].speed

C18_Witness ==
    /\ idx >= 1
    /\ chain = "manifest"
    /\ Len(proxies) > maxRetry
    /\ MirrorAttempts = maxRetry
    /\ result.err = "allfailed"
    /\ proxies[1].speed > proxies[maxRetry].speed
    /\ proxies[maxRetry].speed > proxies[maxRetry + 1].speed

(* C19: every snapshot in the cache file has total = the number of its    *)
(* records.                                                                *)
C19_TotalIsRecordCount ==
    cacheFile.kind = "snapshot" => cacheFile.total = Len(cacheFile.data)

(* C20: the cache file only ever gets a snapshot from fetchFromAPI, with  *)
(* the records in the order of the directory service's answer; a step     *)
(* that changes the caller's list of proxies, such as the sort of a       *)
(* chain, leaves the cache file as it is.                                  *)
C20_CacheKeepsReceivedOrder ==
    [][ /\ (cacheFile' # cacheFile /\ cacheFile'.kind = "snapshot") =>
              (pc = "fetchFromAPI" /\ cacheFile'.data = gp'.resp.data)
        /\ cacheFile'.kind = "snapshot" => cacheFile'.data \in ApiLists
        /\ proxies' # proxies => cacheFile' = cacheFile ]_vars

C20_Witness ==
    /\ pc = "downloadWithProxiesLoop"
    /\ cacheFile.kind = "snapshot"
    /\ Len(cacheFile.data) > maxRetry
    /\ Len(proxies) = Len(cacheFile.data)
    /\ SpeedDescending(proxies)
    /\ ~SpeedDescending(cacheFile.data)

(* C14: every request a retrieval sends, the directory-service query       *)
(* among them, has a deadline, and so a retrieval during which no remote   *)
(* endpoint answers ends all the same.                                     *)
C14_SilentRetrievalTerminates == silent ~> (pc = "done")

(* C15: at most one request is in flight at any moment, and a request is  *)
(* in flight only when every attempt made before it has ended in failure.  *)
C15_OneRequestAtATime ==
    /\ Cardinality(inflight) <= 1
    /\ inflight # {} => \A i \in DOMAIN attempts : ~attempts[i].ok
    /\ \A i \in 1..(Len(attempts) - 1) : ~attempts[i].ok
    /\ pc \in NetWaits => inflight = {Request(netAwaitedURL, netTimeout)}
    /\ pc \notin (NetWaits \cup {"waitDirectory"}) => inflight = {}

C15_Witness ==
    /\ pc = "waitMirror"
    /\ chain = "payload"
    /\ Len(attempts) = 2 + 3
    /\ Cardinality(inflight) = 1

(* C21: a directory-service query that is saved leaves in the cache file  *)
(* a snapshot of exactly the answer's records, whatever the file held     *)
(* before; nothing but fetchFromAPI and ClearCache changes the file; and  *)
(* a GetProxies call that finds a snapshot at most 10 hours old makes no  *)
(* directory-service call and returns the snapshot's records.              *)
C21_RefreshOverwritesAndIsReused ==
    [][ /\ (pc = "fetchFromAPI" /\ gp'.saved = "ok") =>
              cacheFile' = ProxyCache(gp'.resp.data, now, gp'.resp.total)
        /\ pc \notin {"fetchFromAPI", "ClearCache"} => cacheFile' = cacheFile
        /\ (gp'.done /\ gp'.entry.kind = "snapshot" /\ gp'.age <= cacheValidDuration) =>
              (gp'.apiCalls = 0 /\ gp'.err = "" /\ gp'.data = gp'.entry.data) ]_vars

C21_Witness ==
    /\ gp.done
    /\ gp.saved = "ok"
    /\ gp.entry.kind = "snapshot"
    /\ gp.entry.data = LongList(1)
    /\ cacheFile = ProxyCache(TieList, now, Len(TieList))

(* C22: every mirror attempt asks for the mirror's URL without its        *)
(* trailing slash, a slash, and the canonical URL, with the timeout of    *)
(* the chain's first attempt (3 s for a manifest, 30 s for a payload); in *)
(* a payload chain the canonical URL is extractGitHubURL(zipUrl) and      *)
(* carries no known mirror prefix, so that no mirror wraps another.        *)
C22_MirrorWrapsTheOrigin ==
    idx >= 1 =>
        \A j \in 1..MirrorAttempts :
            LET a == attempts[DirectAttempts + j]
                canonical == IF chain = "payload" THEN extractGitHubURL(zipUrl)
                             ELSE buildUpdateURL(repo)
            IN /\ a.url = TrimSuffix(proxies[j].url, "/") \o "/" \o canonical
               /\ ~HasSuffix(TrimSuffix(proxies[j].url, "/"), "/")
               /\ a.timeout = attempts[1].timeout
               /\ a.timeout = IF chain = "payload" THEN payloadTimeout ELSE manifestTimeout
               /\ ~HasKnownPrefix(canonical)

(* a body parseUpdateJSON rejects: not JSON, or no zipUrl, or an empty one *)
ParseFails(body) == ~body.json \/ ~body.hasZip \/ body.zipUrl = ""

(* C26: in the manifest chain an attempt, direct or on a mirror, that     *)
(* gets a 200 answer whose body is not JSON or has no zipUrl is the last  *)
(* attempt of the chain: the parse error is returned, no manifest is      *)
(* returned and no other mirror is tried.                                  *)
C26_BadManifestEndsTheChain ==
    chain = "manifest" =>
        \A i \in DOMAIN attempts :
            (attempts[i].ok /\ ParseFails(attempts[i].body)) =>
                /\ i = Len(attempts)
                /\ pc = "done"
                /\ result.call = "downloadUpdateJSON"
                /\ result.err = IF attempts[i].body.json THEN "nozip" ELSE "json"
                /\ zipUrl = ""

C26_Witness ==
    /\ chain = "manifest"
    /\ Len(attempts) = 2
    /\ attempts[2].ok
    /\ attempts[2].body = Body(FALSE, FALSE, "")
    /\ Len(proxies) > maxRetry
    /\ result.err = "json"
    /\ pc = "done"

(* C27: the update command makes exactly one directory-service query; if  *)
(* the query fails no snapshot is left in the cache file; if it succeeds  *)
(* and is saved the snapshot holds the answer's records.                   *)
C27_UpdateAlwaysQueriesOnce ==
    (cmd = "update" /\ pc = "done") =>
        /\ gp.done
        /\ gp.apiCalls = 1
        /\ gp.err # "" => cacheFile.kind # "snapshot"
        /\ (gp.err = "" /\ gp.saved = "ok") =>
              (cacheFile.kind = "snapshot" /\ cacheFile.data = gp.resp.data)

(* one call of a primitive fetch has returned *)
FetchDone == fPc = "done"

(* the stream broke before the end of the body *)
StreamCut == fIn.cut < Len(fIn.body)

TransportOk == fIn.do = "response" /\ ~(StreamCut /\ fIn.cutBy = "transport")

DeadlineExpired == fIn.do = "deadline" \/ (StreamCut /\ fIn.cutBy = "deadline")

(* a call returns no error only when the URL made a request, the         *)
(* transport worked, the deadline did not pass and the status was 200     *)
SuccessOnlyOn200 ==
    fSt.err = "" => (fIn.urlOk /\ TransportOk /\ ~DeadlineExpired /\ fIn.status = 200)

(* C23 as stated: one call of downloadWithTimeout or downloadFile sends   *)
(* exactly one request, and returns no error only when the transport      *)
(* worked, the deadline did not pass and the status was 200.               *)
C23_ExactlyOneRequest ==
    FetchDone => (fSt.sent = 1 /\ SuccessOnlyOn200)

(* C23 as amended: the call sends at most one request: exactly one when   *)
(* the URL makes a request, none when it does not, and then it returns    *)
(* an error; the rest as stated.                                           *)
C23_AtMostOneRequest ==
    /\ fSt.sent <= 1
    /\ FetchDone =>
          /\ fSt.sent = IF fIn.urlOk THEN 1 ELSE 0
          /\ SuccessOnlyOn200

C23_Witness ==
    /\ FetchDone
    /\ fIn.kind = "bytes"
    /\ fSt.sent = 1
    /\ fIn.status = 200
    /\ fSt.copied > 0
    /\ fSt.err = "deadline"

(* C24: when downloadFile has returned, the file it created is closed     *)
(* (and so are the response body and the context), whatever the outcome;  *)
(* the file is open only during the copy; and after a copy that failed    *)
(* the file is still there and holds the chunks copied before the         *)
(* failure.                                                                *)
C24_ClosedOnEveryPathPartialKept ==
    /\ FetchDone => (~fSt.fileOpen /\ ~fSt.bodyOpen /\ ~fSt.ctxLive)
    /\ fSt.fileOpen => (fSt.created /\ fPc \in {"copy", "return"})
    /\ (FetchDone /\ fSt.created /\ fSt.err # "") =>
          (fFile.exists /\ fFile.data = SubSeq(fIn.body, 1, fIn.cut))

C24_Witness ==
    /\ FetchDone
    /\ fN = MaxFetches
    /\ fSt.created
    /\ fSt.err = "deadline"
    /\ Len(fFile.data) > 0
    /\ Len(fFile.data) < Len(fIn.body)

(* C25: when downloadFile returns no error the file holds exactly the     *)
(* body of that call, whatever earlier calls left there; a call that      *)
(* fails before it creates the file leaves the file as it found it.        *)
C25_FileIsTheWinningBody ==
    (FetchDone /\ fIn.kind = "file") =>
        /\ fSt.err = "" => fFile = [exists |-> TRUE, data |-> fIn.body]
        /\ ~fSt.created => fFile = fSt.before

C25_Witness ==
    /\ FetchDone
    /\ fIn.kind = "file"
    /\ fN = 2
    /\ fSt.err = ""
    /\ Len(fSt.before.data) > Len(fIn.body)
    /\ fFile.data = fIn.body

(* C28: a GetProxies call that found the cache valid reads the file twice *)
(* and never queries the directory. When no other process touched the    *)
(* file between the two reads it returns the records it validated. When   *)
(* another process removed the file, or was writing it, in between, it    *)
(* returns the cache-read error; when another process rewrote it, it      *)
(* returns the records now in the file.                                    *)
C28_CheckThenLoadIsNotAtomic ==
    (gp.done /\ gp.valid) =>
        /\ gp.apiCalls = 0
        /\ gp.reads = 2
        /\ other = "" => (gp.err = "" /\ gp.data = gp.entry.data)
        /\ other \in {"removed", "writing"} => (gp.err = "cache" /\ gp.data = <<>>)
        /\ other = "rewrote" => (gp.err = "" /\ gp.data = cacheFile.data)

C28_Witness ==
    /\ gp.done
    /\ gp.valid
    /\ gp.entry.kind = "snapshot"
    /\ other = "removed"
    /\ gp.err = "cache"
    /\ gp.apiCalls = 0

====
